---- MODULE Spec2Model ----
(***************************************************************************)
(* A model of src/server/notes_maker.py: the extractor (_extract_url), the *)
(* outliner (_outline_from_markdown), the summarizer (_summarize_markdown) *)
(* and the batch orchestrator (batch_summarize).                           *)
(*                                                                         *)
(* A Python str is a sequence of one-character strings.  The two           *)
(* characters outside ASCII that the program writes are the atoms "U+2026" *)
(* (horizontal ellipsis) and "U+2014" (em dash).  An Optional[str] is a    *)
(* sequence of length 0 (None) or 1 (the string).                          *)
(***************************************************************************)
EXTENDS Integers, Sequences, FiniteSets, TLC

VARIABLES
    arg,        \* the arguments of the function under call
    ret,        \* what the call returned
    pc,         \* "call" before the call, "done" after it; in batch_summarize
                \* "gather" while the extractions run, "failed" if it raised
    tasks,      \* batch_summarize: the extraction task of each position of urls
    order       \* batch_summarize: the positions in the order their tasks settled

vars == <<arg, ret, pc, tasks, order>>

----------------------------------------------------------------------------
(* Python's str operations, on sequences of characters.  An argument an    *)
(* operator reads more than once is first named in a LET, which makes it   *)
(* evaluated once.                                                         *)

\* str.isspace() of one character, over the characters the inputs are made of
Whitespace == {" ", "\n"}

Min(a, b) == LET x == a y == b IN IF x <= y THEN x ELSE y

Max(a, b) == LET x == a y == b IN IF x >= y THEN x ELSE y

\* a value built as a function, as the tuple it is equal to
Seqify(f) == LET g == f IN SubSeq(g, 1, Len(g))

\* s[:n]
Take(s, n) == LET str == s IN SubSeq(str, 1, Min(n, Len(str)))

\* s.startswith(p)
StartsWith(s, p) ==
    LET str == s
        pre == p
    IN  Len(str) >= Len(pre) /\ SubSeq(str, 1, Len(pre)) = pre

\* the places where sep occurs in s
Occurrences(s, sep) ==
    LET str == s
        n == Len(sep)
    IN  {i \in 1..(Len(str) - n + 1) : \A k \in 1..n : str[i + k - 1] = sep[k]}

\* the least element of a non-empty set of integers
Least(S) == LET T == S IN CHOOSE i \in T : \A j \in T : i <= j

\* the greatest element of a non-empty set of integers
Greatest(S) == LET T == S IN CHOOSE i \in T : \A j \in T : i >= j

\* sep in s
Contains(s, sep) == Occurrences(s, sep) # {}

\* the sorted sequence of a finite set of integers
SortedSeq(S) ==
    LET T == S
    IN  Seqify([k \in 1..Cardinality(T) |->
                    CHOOSE h \in T : Cardinality({g \in T : g <= h}) = k])

\* the places where s.split(sep) cuts s, sep of one or two characters: the
\* occurrences of sep taken from left to right, none overlapping the one
\* taken before it (of a run of overlapping occurrences, every other one)
Cuts(s, sep) ==
    LET occ == Occurrences(s, sep)
        before(c) == Cardinality({j \in 1..(c - 1) : \A k \in j..(c - 1) : k \in occ})
    IN  IF Len(sep) = 1 THEN occ ELSE {c \in occ : before(c) % 2 = 0}

\* s.split(sep), sep of one or two characters
Split(s, sep) ==
    LET str == s
        cuts == SortedSeq(Cuts(str, sep))
    IN  Seqify([k \in 1..(Len(cuts) + 1) |->
                    SubSeq(str, IF k = 1 THEN 1 ELSE cuts[k - 1] + Len(sep),
                                IF k > Len(cuts) THEN Len(str) ELSE cuts[k] - 1)])

\* s.splitlines(): no line for the empty string, none after a final line break
SplitLines(s) ==
    LET parts == Split(s, <<"\n">>)
    IN  IF parts[Len(parts)] = <<>> THEN SubSeq(parts, 1, Len(parts) - 1)
        ELSE parts

\* s.lstrip(chars)
LStrip(s, chars) ==
    LET str == s
        keep == {i \in 1..Len(str) : str[i] \notin chars}
    IN  IF keep = {} THEN <<>> ELSE SubSeq(str, Least(keep), Len(str))

\* s.rstrip(chars)
RStrip(s, chars) ==
    LET str == s
        keep == {i \in 1..Len(str) : str[i] \notin chars}
    IN  IF keep = {} THEN <<>> ELSE SubSeq(str, 1, Greatest(keep))

\* s.strip(chars)
Strip(s, chars) == RStrip(LStrip(s, chars), chars)

\* s.strip()
StripWS(s) == Strip(s, Whitespace)

RECURSIVE Join(_, _)
\* sep.join(parts), one half of parts after the other
Join(sep, parts) ==
    LET ps == parts
        half == Len(ps) \div 2
    IN  IF Len(ps) = 0 THEN <<>>
        ELSE IF Len(ps) = 1 THEN ps[1]
        ELSE Join(sep, SubSeq(ps, 1, half)) \o sep
                \o Join(sep, SubSeq(ps, half + 1, Len(ps)))

\* len(s.split()): the whitespace-delimited tokens of s
WordCount(s) ==
    LET str == s
    IN  Cardinality({i \in 1..Len(str) : str[i] \notin Whitespace
                                         /\ (i = 1 \/ str[i - 1] \in Whitespace)})

Digits == <<"0", "1", "2", "3", "4", "5", "6", "7", "8", "9">>

RECURSIVE ToStr(_)
\* str(n) of an int n >= 0
ToStr(n) == IF n < 10 THEN <<Digits[n + 1]>> ELSE ToStr(n \div 10) \o <<Digits[(n % 10) + 1]>>

\* unit * n
Rep(unit, n) == Seqify([i \in 1..(n * Len(unit)) |-> unit[((i - 1) % Len(unit)) + 1]])

\* [x.strip() for x in s]
StripEach(s) == LET str == s IN Seqify([i \in 1..Len(str) |-> StripWS(str[i])])

None == <<>>

Some(x) == <<x>>

\* bool(x) of an Optional[str]: None and "" are false
Truthy(opt) == opt # None /\ opt[1] # <<>>

----------------------------------------------------------------------------
(* String literals of the program.                                         *)

\* f"- Section {i}: {first}…"
SectionPrefix ==
    <<"-", " ", "S", "e", "c", "t", "i", "o", "n", " ">>

Ellipsis == <<"U+2026">>

ColonSpace == <<":", " ">>

\* the sentence boundary of p.split(". ") and line.split(". ")
SentenceEnd == <<".", " ">>

\* the paragraph boundary of md.split("\n\n")
ParagraphBreak == <<"\n", "\n">>

Hash == <<"#">>

BulletPrefix == <<"-", " ">>

Newline == <<"\n">>

----------------------------------------------------------------------------
(* _outline_from_markdown                                                  *)

\* paras[:10]
MaxSections == 10

\* [:80]
SnippetLen == 80

\* [p.strip() for p in md.split("\n\n") if p.strip()]
Paragraphs(md) ==
    StripEach(SelectSeq(Split(md, ParagraphBreak), LAMBDA p : StripWS(p) # <<>>))

\* the mutant of SynthesizedSections that forgets paras[:10]
SynthesizedSectionsUncapped(paras) ==
    [i \in 1..Len(paras) |->
        SectionPrefix \o ToStr(i) \o ColonSpace
            \o Take(Split(paras[i], SentenceEnd)[1], SnippetLen) \o Ellipsis]

\* for i, p in enumerate(paras[:10], 1): outline.append(f"- Section {i}: {first}…")
SynthesizedSections(paras) ==
    [i \in 1..Min(MaxSections, Len(paras)) |->
        SectionPrefix \o ToStr(i) \o ColonSpace
            \o Take(Split(paras[i], SentenceEnd)[1], SnippetLen) \o Ellipsis]

_outline_from_markdown(md) ==
    LET outline == StripEach(SelectSeq(SplitLines(md),
                                       LAMBDA line : StartsWith(line, Hash)))
    IN  IF outline = <<>> THEN Seqify(SynthesizedSections(Paragraphs(md)))
        ELSE Seqify(outline)

----------------------------------------------------------------------------
(* The markdown bodies the outliner and the summarizer are called with.    *)

MaxLen == 4

MaxRep == 22

Alphabet == {"#", " ", ".", "a", "\n"}

\* every string of at most MaxLen characters
SmallStrings == UNION {[1..n -> Alphabet] : n \in 0..MaxLen}

HeadingBlock == <<"#", " ", "h", "\n", "a", ".", " ", "b", "\n">>

ParagraphBlock == <<"a", ".", " ", "b", "\n", "\n">>

SentenceBlock == <<"a", ".", " ">>

RepeatedDocs ==
    {Rep(b, n) : b \in {HeadingBlock, ParagraphBlock, SentenceBlock}, n \in 1..MaxRep}

\* paragraphs about SnippetLen characters long, with and without a sentence end
LongDocs ==
    {Rep(<<"a">>, n) \o t \o Rep(ParagraphBlock, k) :
        n \in (SnippetLen - 1)..(SnippetLen + MaxLen),
        t \in {<<>>, <<".", " ", "b", "\n", "\n">>, <<".", "\n", "\n">>},
        k \in {0, MaxRep}}

EdgeDocs ==
    { <<" ", "#", " ", "h", "\n", "a", ".", " ", "b">>,
      <<"#", " ", "h", "\n", ".", "a", ".", " ", "b">>,
      <<"#", " ", "h", "\n", ".", " ", "a", "\n", "b", ".", ".", " ", "c">>,
      <<"#", "\n", "a", ".", " ", "b", "\n", "#", "#", " ", "#", "h", " ", "\n", "c">>,
      <<"a", "\n", " ", "\n", "b", "\n", "\n", "\n", ".", " ", "c">> }

Docs == SmallStrings \cup RepeatedDocs \cup LongDocs \cup EdgeDocs

----------------------------------------------------------------------------
(* The outliner under call.                                                *)

\* no batch is running while a single function is under call
NoBatch == tasks = <<>> /\ order = <<>>

InitOutline ==
    /\ arg \in Docs
    /\ ret = <<>>
    /\ pc = "call"
    /\ NoBatch

OutlineCall ==
    /\ pc = "call"
    /\ ret' = _outline_from_markdown(arg)
    /\ pc' = "done"
    /\ UNCHANGED <<arg, tasks, order>>

NextOutline == OutlineCall

SpecOutline == InitOutline /\ [][NextOutline]_vars

----------------------------------------------------------------------------
(* What the outline is said to be.                                         *)

\* s up to the first occurrence of sep, the whole of s when there is none
BeforeFirst(s, sep) ==
    LET str == s
        hits == Occurrences(str, sep)
    IN  IF hits = {} THEN str ELSE SubSeq(str, 1, Least(hits) - 1)

\* the lines of md whose first non-space character is "#", trimmed, in order
TrimmedHeadingLines(md) ==
    StripEach(SelectSeq(SplitLines(md), LAMBDA l : StartsWith(LStrip(l, {" "}), Hash)))

\* the non-empty trimmed pieces of md between blank-line ("\n\n") boundaries
BlankLineParagraphs(md) ==
    SelectSeq(StripEach(Split(md, ParagraphBreak)), LAMBDA p : p # <<>>)

\* C6: when md has at least one heading line (a line whose first non-space
\* character is "#"), the outline is exactly the list of those heading lines,
\* trimmed, in document order, with no synthesized entry.
C6_OutlineIsTheHeadingLines ==
    (pc = "done" /\ TrimmedHeadingLines(arg) # <<>>) => ret = TrimmedHeadingLines(arg)

\* the i-th synthesized entry, with the list marker the code writes before it
SectionEntry(marker, i, p) ==
    marker \o <<"S", "e", "c", "t", "i", "o", "n", " ">> \o ToStr(i) \o ColonSpace
        \o Take(BeforeFirst(p, SentenceEnd), 80) \o Ellipsis

SynthesizedOutlineIs(marker) ==
    LET paras == BlankLineParagraphs(arg)
    IN  (pc = "done" /\ TrimmedHeadingLines(arg) = <<>> /\ paras # <<>>) =>
            /\ Len(ret) = Min(10, Len(paras))
            /\ Len(ret) \in 1..10
            /\ \A i \in 1..Len(ret) :
                /\ ret[i] = SectionEntry(marker, i, paras[i])
                /\ Len(Take(BeforeFirst(paras[i], SentenceEnd), 80)) <= 80

\* C7 as stated: with no heading line and at least one non-empty paragraph, the
\* outline has min(10, number of paragraphs) entries, between 1 and 10, the i-th
\* being "Section <i>: <snippet>…", the snippet the paragraph up to its first
\* ". " cut to 80 characters.
C7_SectionEntriesAsStated == SynthesizedOutlineIs(<<>>)

\* C7 as amended: the same, the i-th entry being "- Section <i>: <snippet>…",
\* a markdown list item, the paragraphs being the trimmed non-empty pieces of
\* the body between "\n\n" boundaries.
C7_SectionEntriesAreListItems == SynthesizedOutlineIs(BulletPrefix)

\* C7's case: more than 10 paragraphs, the first one longer than 80 characters
\* before its first ". "
C7_Witness ==
    /\ pc = "done"
    /\ TrimmedHeadingLines(arg) = <<>>
    /\ Len(BlankLineParagraphs(arg)) > 10
    /\ Len(BeforeFirst(BlankLineParagraphs(arg)[1], SentenceEnd)) > 80
    /\ Len(ret) = 10

----------------------------------------------------------------------------
(* _summarize_markdown                                                     *)

\* if current_section and len(bullets) < 20
MaxWalkBullets == 20

\* sentences[:7]
FallbackSentences == 7

Lengths == {"short", "medium", "long"}

\* {"short": 7, "medium": 15, "long": 30}[length]
TierCap(length) ==
    CASE length = "short" -> 7
      [] length = "medium" -> 15
      [] length = "long" -> 30

\* lines = [l.strip() for l in md.splitlines() if l.strip()]
SummaryLines(md) ==
    StripEach(SelectSeq(SplitLines(md), LAMBDA l : StripWS(l) # <<>>))

\* the mutant of Sentence that takes the whole line
SentenceIsWholeLine(line) == line

\* sent = line.split(". ")[0]
Sentence(line) == Split(line, SentenceEnd)[1]

\* f"{current_section}: {sent.strip('. ')}."
SectionBullet(section, sent) ==
    section \o ColonSpace \o Strip(sent, {".", " "}) \o <<".">>

\* one iteration of the loop, on line, from the bullets and the current
\* section of loop
WalkStep(loop, line) ==
    LET at == loop
        text == line
        heading == StartsWith(text, Hash)
        sent == Sentence(text)
        emits == /\ ~heading
                 /\ Truthy(at.current_section)
                 /\ Len(at.bullets) < MaxWalkBullets
                 /\ sent # <<>>
    IN  [bullets |-> IF emits
                     THEN Append(at.bullets, SectionBullet(at.current_section[1], sent))
                     ELSE at.bullets,
         current_section |-> IF heading THEN Some(LStrip(text, {"#", " "}))
                             ELSE IF emits THEN None
                             ELSE at.current_section]

\* v, once it has been evaluated
Evaluated(v) == v = v

RECURSIVE Walk(_, _, _, _)
\* the iterations of the loop on lines[first..last], from the bullets and the
\* current section of loop: those of the first half, and from what they leave,
\* those of the second
Walk(lines, first, last, loop) ==
    IF first > last THEN loop
    ELSE IF first = last THEN WalkStep(loop, lines[first])
    ELSE LET mid == (first + last) \div 2
             half == Walk(lines, first, mid, loop)
         IN  IF Evaluated(half) THEN Walk(lines, mid + 1, last, half) ELSE half

\* bullets after the loop: bullets = [] and current_section = None before it
HeadingWalk(lines) ==
    LET ls == lines
    IN  Walk(ls, 1, Len(ls), [bullets |-> <<>>, current_section |-> None]).bullets

\* bullets = [s.strip() + "." for s in sentences[:7] if s]
SentenceFallback(lines) ==
    LET sentences == Split(Join(<<" ">>, lines), SentenceEnd)
        kept == SelectSeq(Take(sentences, FallbackSentences), LAMBDA s : s # <<>>)
    IN  Seqify([i \in 1..Len(kept) |-> StripWS(kept[i]) \o <<".">>])

\* the mutant of Truncate that forgets the tier's cap
TruncateNothing(bullets, n) == bullets

\* bullets = bullets[:n]
Truncate(bullets, n) == Take(bullets, n)

_summarize_markdown(md, length) ==
    LET lines == SummaryLines(md)
        walked == HeadingWalk(lines)
        bullets == Truncate(IF walked = <<>> THEN SentenceFallback(lines) ELSE walked,
                            TierCap(length))
    IN  [md_summary |-> Join(Newline, Seqify([i \in 1..Len(bullets) |->
                                                BulletPrefix \o bullets[i]])),
         bullets |-> bullets]

----------------------------------------------------------------------------
(* The summarizer under call.                                              *)

InitSummarize ==
    /\ arg \in [md : Docs, length : Lengths]
    /\ ret = <<>>
    /\ pc = "call"
    /\ NoBatch

SummarizeCall ==
    /\ pc = "call"
    /\ ret' = _summarize_markdown(arg.md, arg.length)
    /\ pc' = "done"
    /\ UNCHANGED <<arg, tasks, order>>

NextSummarize == SummarizeCall

SpecSummarize == InitSummarize /\ [][NextSummarize]_vars

----------------------------------------------------------------------------
(* What the summary is said to be.                                         *)

\* the lines of the rendered summary
RenderedLines(text) == IF text = <<>> THEN <<>> ELSE Split(text, Newline)

\* C5: the returned bullet list has at most 7 bullets for short, 15 for medium
\* and 30 for long, from the heading walk or from the sentence fallback, and
\* the rendered text has exactly one "- " prefixed line per returned bullet.
C5_BulletsWithinTierCap ==
    pc = "done" =>
        /\ Len(ret.bullets) <= (IF arg.length = "short" THEN 7
                                ELSE IF arg.length = "medium" THEN 15 ELSE 30)
        /\ Len(RenderedLines(ret.md_summary)) = Len(ret.bullets)
        /\ \A i \in 1..Len(ret.bullets) :
            RenderedLines(ret.md_summary)[i] = <<"-", " ">> \o ret.bullets[i]

\* C5's case: a short summary of a document whose heading walk finds more than
\* 7 bullets
C5_Witness ==
    /\ pc = "done"
    /\ arg.length = "short"
    /\ Len(HeadingWalk(SummaryLines(arg.md))) > 7
    /\ Len(ret.bullets) = 7

\* the non-heading lines under the heading at line h, up to the next heading,
\* whose text up to the first ". " is not empty
Qualifying(lines, h) ==
    {j \in (h + 1)..Len(lines) :
        /\ \A k \in (h + 1)..j : ~StartsWith(lines[k], Hash)
        /\ BeforeFirst(lines[j], SentenceEnd) # <<>>}

\* the bullets of the heading walk before the stop at 20: one per heading
\* occurrence that has a qualifying line (and, with labelled, a non-empty
\* label), made of the heading's label and of its first qualifying line's
\* sentence, "." and spaces stripped at its end (and, with both, at its start)
WalkBullets(lines, labelled, both) ==
    LET heads == {h \in 1..Len(lines) :
                    /\ StartsWith(lines[h], Hash)
                    /\ Qualifying(lines, h) # {}
                    /\ (labelled => LStrip(lines[h], {"#", " "}) # <<>>)}
        first(h) == CHOOSE j \in Qualifying(lines, h) : \A k \in Qualifying(lines, h) : j <= k
        sentence(h) == BeforeFirst(lines[first(h)], SentenceEnd)
        sorted == SortedSeq(heads)
    IN  Seqify([k \in 1..Len(sorted) |->
            LStrip(lines[sorted[k]], {"#", " "}) \o ColonSpace
                \o (IF both THEN Strip(sentence(sorted[k]), {".", " "})
                    ELSE RStrip(sentence(sorted[k]), {".", " "}))
                \o <<".">>])

\* when the heading walk is said to find a bullet, the returned bullets are its
\* first 20, cut to the tier's cap
HeadingWalkIs(labelled, both) ==
    LET said == WalkBullets(SummaryLines(arg.md), labelled, both)
    IN  (pc = "done" /\ said # <<>>) =>
            ret.bullets = Take(Take(said, 20), TierCap(arg.length))

\* C10 as stated: each heading occurrence contributes at most one bullet, the
\* first non-heading line after it whose text up to the first ". " is non-empty
\* yielding "<section>: <sentence with trailing '.' and spaces stripped>."; the
\* bullets are in document order and collection stops at 20 bullets.
C10_HeadingWalkAsStated == HeadingWalkIs(FALSE, FALSE)

\* C10 as amended: the same for each heading occurrence whose label (the heading
\* line without its leading "#" and spaces) is not empty, the sentence having
\* its leading as well as its trailing "." and spaces stripped; a heading with
\* an empty label contributes no bullet.
C10_HeadingWalkLabelled == HeadingWalkIs(TRUE, TRUE)

\* C10's case: more than 20 heading blocks with a qualifying line, summarized
\* long, so that the stop at 20 decides the result
C10_Witness ==
    /\ pc = "done"
    /\ arg.length = "long"
    /\ Len(WalkBullets(SummaryLines(arg.md), TRUE, TRUE)) > 20
    /\ Len(ret.bullets) = 20

----------------------------------------------------------------------------
(* _extract_url                                                            *)

\* the sentinel returned by extract_content_from_html
SimplifyFailed ==
    <<"<", "e", "r", "r", "o", "r", ">", "P", "a", "g", "e", " ", "f", "a", "i", "l", "e",
    "d", " ", "t", "o", " ", "b", "e", " ", "s", "i", "m", "p", "l", "i", "f", "i", "e",
    "d", " ", "f", "r", "o", "m", " ", "H", "T", "M", "L", "<", "/", "e", "r", "r", "o",
    "r", ">">>

\* f"Failed to fetch {url}: {e!r}"
FetchFailedPrefix ==
    <<"F", "a", "i", "l", "e", "d", " ", "t", "o", " ", "f", "e", "t", "c", "h", " ">>

\* f"Failed to fetch {url} - status {resp.status_code}"
StatusInfix ==
    <<" ", "-", " ", "s", "t", "a", "t", "u", "s", " ">>

\* f"Unsupported content-type: {content_type}"
UnsupportedPrefix ==
    <<"U", "n", "s", "u", "p", "p", "o", "r", "t", "e", "d", " ", "c", "o", "n", "t", "e",
    "n", "t", "-", "t", "y", "p", "e", ":", " ">>

\* the substring looked for in the content-type header
TextHtml ==
    <<"t", "e", "x", "t", "/", "h", "t", "m", "l">>

\* href.startswith("http")
HttpPrefix ==
    <<"h", "t", "t", "p">>

\* reading_time = max(1, round(words / 200))
WordsPerMinute == 200

\* round(num / den) of Python 3, num >= 0 and den > 0: to the nearest integer,
\* a tie to the even one
PyRound(num, den) ==
    LET q == num \div den
        r == num % den
    IN  IF 2 * r < den THEN q
        ELSE IF 2 * r > den THEN q + 1
        ELSE IF q % 2 = 0 THEN q ELSE q + 1

\* the mutant of ReadingTime that divides with //
ReadingTimeFloorDiv(md) == Max(1, Max(1, WordCount(md)) \div WordsPerMinute)

\* words = max(1, len(md.split())); reading_time = max(1, round(words / 200))
ReadingTime(md) == Max(1, PyRound(Max(1, WordCount(md)), WordsPerMinute))

RECURSIVE Dedup(_)
\* list(dict.fromkeys(links)): the first occurrence of each, in order
Dedup(links) ==
    IF links = <<>> THEN <<>>
    ELSE LET init == Dedup(SubSeq(links, 1, Len(links) - 1))
             last == links[Len(links)]
         IN  IF \E i \in 1..Len(init) : init[i] = last THEN init ELSE Append(init, last)

\* the try block: the hrefs of the page's anchors that start with "http",
\* without repetitions; [] when the scan raises
ScanLinks(page) ==
    IF page.scan_fails THEN <<>>
    ELSE Dedup(SelectSeq(page.anchors, LAMBDA href : StartsWith(href, HttpPrefix)))

\* sj.get("content") if sj else None
ContentHtml(page) == IF page.sj = None THEN None ELSE page.sj[1].content

\* extract_content_from_html(html): readability once more, then markdownify
extract_content_from_html(page) ==
    IF ~Truthy(ContentHtml(page)) THEN SimplifyFailed ELSE page.md

\* the mutant of FirstFailure that looks at the content type before the status
FirstFailureTypeFirst(resp) ==
    IF resp.transport = "error" THEN "transport"
    ELSE IF ~Contains(resp.content_type, TextHtml) THEN "content_type"
    ELSE IF resp.status >= 400 THEN "status"
    ELSE "none"

\* the checks of the response, in the order the code makes them
FirstFailure(resp) ==
    IF resp.transport = "error" THEN "transport"
    ELSE IF resp.status >= 400 THEN "status"
    ELSE IF ~Contains(resp.content_type, TextHtml) THEN "content_type"
    ELSE "none"

\* resp is what client.get(url, ...) came to: an httpx.HTTPError (transport =
\* "error", cause its repr) or a response, whose page holds what the
\* collaborators make of resp.text: sj what readability returns, md what
\* markdownify makes of sj's content, anchors the href of each <a href> in
\* document order, scan_fails whether the scan raises.  calls lists the
\* collaborators invoked, in order.
_extract_url(url, resp) ==
    LET failure == FirstFailure(resp)
        page == resp.page
        sj == page.sj
        content_html == ContentHtml(page)
        md == IF ~Truthy(content_html) THEN extract_content_from_html(page) ELSE page.md
    IN  CASE failure = "transport" ->
                [kind |-> "error", code |-> "INTERNAL_ERROR",
                 message |-> FetchFailedPrefix \o url \o ColonSpace \o resp.cause,
                 calls |-> <<"get">>]
          [] failure = "status" ->
                [kind |-> "error", code |-> "INTERNAL_ERROR",
                 message |-> FetchFailedPrefix \o url \o StatusInfix \o ToStr(resp.status),
                 calls |-> <<"get">>]
          [] failure = "content_type" ->
                [kind |-> "error", code |-> "INVALID_PARAMS",
                 message |-> UnsupportedPrefix \o resp.content_type,
                 calls |-> <<"get">>]
          [] failure = "none" ->
                [kind |-> "ok",
                 meta |-> [title |-> IF sj = None THEN None ELSE sj[1].title,
                           byline |-> IF sj = None THEN None ELSE sj[1].byline,
                           published_at |-> IF sj # None /\ Truthy(sj[1].date_published)
                                            THEN sj[1].date_published ELSE None,
                           canonical_url |-> Some(resp.url),
                           reading_time_minutes |-> ReadingTime(md)],
                 markdown |-> md,
                 links |-> ScanLinks(page),
                 calls |-> <<"get", "readability">>
                           \o (IF ~Truthy(content_html) THEN <<"readability">>
                               ELSE <<"markdownify">>)
                           \o <<"bs4">>]

----------------------------------------------------------------------------
(* The responses the extractor is called with.                             *)

MaxWords == 700

MaxAnchors == 4

\* Content-Type: text/html
CtHtml ==
    <<"t", "e", "x", "t", "/", "h", "t", "m", "l">>

\* Content-Type: text/html; charset=utf-8
CtHtmlCharset ==
    <<"t", "e", "x", "t", "/", "h", "t", "m", "l", ";", " ", "c", "h", "a", "r", "s", "e",
    "t", "=", "u", "t", "f", "-", "8">>

\* Content-Type: application/json
CtJson ==
    <<"a", "p", "p", "l", "i", "c", "a", "t", "i", "o", "n", "/", "j", "s", "o", "n">>

\* Content-Type: text/plain
CtPlain ==
    <<"t", "e", "x", "t", "/", "p", "l", "a", "i", "n">>

\* an absolute http URL
HrefA ==
    <<"h", "t", "t", "p", ":", "/", "/", "a", ".", "e", "x", "a", "m", "p", "l", "e">>

\* an absolute https URL
HrefB ==
    <<"h", "t", "t", "p", "s", ":", "/", "/", "b", ".", "e", "x", "a", "m", "p", "l", "e",
    "/", "x">>

\* a relative URL
HrefRelative ==
    <<"/", "a", "b", "o", "u", "t">>

\* a relative URL whose first characters are http
HrefHttpFile ==
    <<"h", "t", "t", "p", ".", "h", "t", "m", "l">>

\* a URL of another scheme
HrefMail ==
    <<"m", "a", "i", "l", "t", "o", ":", "x", "@", "y">>

\* repr of an httpx.ConnectError
CauseConnect ==
    <<"C", "o", "n", "n", "e", "c", "t", "E", "r", "r", "o", "r", "(", "'", "'", ")">>

\* repr of an httpx.ReadTimeout
CauseTimeout ==
    <<"R", "e", "a", "d", "T", "i", "m", "e", "o", "u", "t", "(", "'", "'", ")">>

\* main-content HTML, which only markdownify reads
Html ==
    <<"<", "p", ">">>

\* a page with a title and headings
UrlOk ==
    <<"h", "t", "t", "p", "s", ":", "/", "/", "o", "k", ".", "e", "x", "a", "m", "p", "l",
    "e">>

\* the title of UrlOk's page
TitleOk ==
    <<"O", "k", " ", "p", "a", "g", "e">>

Statuses == {200, 204, 399, 400, 404, 500}

ContentTypes == {CtHtml, CtHtmlCharset, CtJson, CtPlain, <<>>}

Hrefs == {HrefA, HrefB, HrefRelative, HrefHttpFile, HrefMail}

Article(title, content, md) ==
    [sj |-> Some([title |-> title, byline |-> None, content |-> content,
                  date_published |-> Some(<<>>)]),
     md |-> md, anchors |-> <<HrefA, HrefRelative, HrefA>>, scan_fails |-> FALSE]

OkPage == Article(Some(TitleOk), Some(Html), Rep(HeadingBlock, 8))

Response(status, content_type, url, page) ==
    [transport |-> "ok", cause |-> <<>>, status |-> status,
     content_type |-> content_type, url |-> url, page |-> page]

TransportError(cause) ==
    [transport |-> "error", cause |-> cause, status |-> 0,
     content_type |-> <<>>, url |-> <<>>, page |-> OkPage]

\* every answer client.get can come to, as far as the checks tell them apart
CheckedResponses ==
    {TransportError(c) : c \in {CauseConnect, CauseTimeout}}
        \cup {Response(st, ct, UrlOk, OkPage) : st \in Statuses, ct \in ContentTypes}

\* pages of 0 to MaxWords words
WordyResponses ==
    {Response(200, CtHtml, UrlOk, Article(None, Some(Html), Rep(u, n))) :
        u \in {<<"w", " ">>, <<" ", "w", "w", "\n", "\n">>}, n \in 0..MaxWords}

\* pages of at most MaxAnchors anchors, scanned or not
LinkedResponses ==
    {Response(200, CtHtmlCharset, UrlOk,
              [OkPage EXCEPT !.anchors = Seqify(a), !.scan_fails = f]) :
        a \in UNION {[1..n -> Hrefs] : n \in 0..MaxAnchors}, f \in BOOLEAN}

\* pages readability finds no article or no content in
BareResponses ==
    {Response(200, CtHtml, UrlOk, p) :
        p \in {[OkPage EXCEPT !.sj = None],
               Article(Some(TitleOk), None, <<>>),
               Article(Some(TitleOk), Some(<<>>), <<>>)}}

Responses == CheckedResponses \cup WordyResponses \cup LinkedResponses \cup BareResponses

----------------------------------------------------------------------------
(* The extractor under call.                                               *)

InitExtract ==
    /\ arg \in [url : {UrlOk}, resp : Responses]
    /\ ret = <<>>
    /\ pc = "call"
    /\ NoBatch

ExtractCall ==
    /\ pc = "call"
    /\ ret' = _extract_url(arg.url, arg.resp)
    /\ pc' = "done"
    /\ UNCHANGED <<arg, tasks, order>>

NextExtract == ExtractCall

SpecExtract == InitExtract /\ [][NextExtract]_vars

----------------------------------------------------------------------------
(* What the extraction is said to be.                                      *)

\* an absolute http URL starts with it
SchemeHttp ==
    <<"h", "t", "t", "p", ":", "/", "/">>

\* an absolute https URL starts with it
SchemeHttps ==
    <<"h", "t", "t", "p", "s", ":", "/", "/">>

\* the collaborators that parse the body of the response
Parsers == {"readability", "markdownify", "bs4"}

NoParsing(r) == \A i \in 1..Len(r.calls) : r.calls[i] \notin Parsers

\* the content types of the inputs that do not indicate HTML
NonHtmlTypes == {CtJson, CtPlain, <<>>}

\* C4: a failure is classified by the first failing check in the order
\* transport, status, content type: a transport failure gives a fetch error
\* carrying the URL, otherwise a status >= 400 gives a status error recording
\* the status code, otherwise a content type that does not indicate HTML gives
\* an unsupported-content-type error carrying the observed type; in each case
\* readability, markdownify and the link scanner are never invoked.
C4_FirstFailingCheckDecides ==
    pc = "done" =>
        LET resp == arg.resp
        IN  /\ resp.transport = "error" =>
                /\ ret.kind = "error"
                /\ ret.message = FetchFailedPrefix \o arg.url \o ColonSpace \o resp.cause
                /\ Contains(ret.message, arg.url)
                /\ NoParsing(ret)
            /\ (resp.transport = "ok" /\ resp.status >= 400) =>
                /\ ret.kind = "error"
                /\ ret.message = FetchFailedPrefix \o arg.url \o StatusInfix
                                    \o ToStr(resp.status)
                /\ NoParsing(ret)
            /\ (resp.transport = "ok" /\ resp.status < 400
                    /\ resp.content_type \in NonHtmlTypes) =>
                /\ ret.kind = "error"
                /\ ret.message = UnsupportedPrefix \o resp.content_type
                /\ NoParsing(ret)

\* C4's case: a response that fails two checks, the status and the content type
C4_Witness ==
    /\ pc = "done"
    /\ arg.resp.transport = "ok"
    /\ arg.resp.status = 404
    /\ arg.resp.content_type = CtJson
    /\ ret.kind = "error"
    /\ ret.calls = <<"get">>

Abs(x) == IF x < 0 THEN -x ELSE x

\* C8: reading_time_minutes is max(1, round(wordCount / 200)), wordCount the
\* number of whitespace-delimited tokens of the markdown body: an integer >= 1
\* and, from 200 words on, wordCount / 200 rounded to the nearest integer.
C8_ReadingTimeIsRoundedWordCount ==
    (pc = "done" /\ ret.kind = "ok") =>
        LET wordCount == WordCount(ret.markdown)
            minutes == ret.meta.reading_time_minutes
        IN  /\ minutes \in Nat
            /\ minutes >= 1
            /\ \E k \in 0..(wordCount \div 200 + 1) :
                /\ 2 * Abs(200 * k - wordCount) <= 200
                /\ minutes = Max(1, k)
            /\ wordCount >= 200 => 2 * Abs(200 * minutes - wordCount) <= 200

\* C8's case: a body of 500 words, half way between 2 and 3 minutes
C8_Witness ==
    /\ pc = "done"
    /\ ret.kind = "ok"
    /\ WordCount(ret.markdown) = 500
    /\ ret.meta.reading_time_minutes = 2

IsAbsoluteHttpUrl(href) == StartsWith(href, SchemeHttp) \/ StartsWith(href, SchemeHttps)

\* the place of the first anchor whose href is h
FirstAnchor(anchors, h) ==
    CHOOSE i \in 1..Len(anchors) :
        anchors[i] = h /\ \A j \in 1..(i - 1) : anchors[j] # h

\* C9: the link list holds only href values that are absolute HTTP(S) URLs,
\* each once, in the order of their first occurrence among the page's anchors
\* (relative hrefs are excluded); when link scanning fails the list is empty
\* and the extraction still succeeds.
C9_LinksAreAbsoluteHttpUrls ==
    (pc = "done" /\ FirstFailure(arg.resp) = "none") =>
        LET anchors == arg.resp.page.anchors
            links == ret.links
        IN  /\ ret.kind = "ok"
            /\ arg.resp.page.scan_fails => links = <<>>
            /\ \A i \in 1..Len(links) :
                /\ IsAbsoluteHttpUrl(links[i])
                /\ \E a \in 1..Len(anchors) : anchors[a] = links[i]
            /\ \A i, j \in 1..Len(links) :
                i < j => /\ links[i] # links[j]
                         /\ FirstAnchor(anchors, links[i]) < FirstAnchor(anchors, links[j])

----------------------------------------------------------------------------
(* batch_summarize                                                         *)

\* f"Source {idx}"
SourcePrefix ==
    <<"S", "o", "u", "r", "c", "e", " ">>

\* f"## Source {idx}\n\n- Error: {r}"
ErrorBullet ==
    <<"-", " ", "E", "r", "r", "o", "r", ":", " ">>

\* the preface of batch_summarize
Preface ==
    <<"C", "o", "m", "b", "i", "n", "e", " ", "t", "h", "e", " ", "f", "o", "l", "l", "o",
    "w", "i", "n", "g", " ", "s", "o", "u", "r", "c", "e", " ", "s", "u", "m", "m", "a",
    "r", "i", "e", "s", " ", "i", "n", "t", "o", " ", "a", " ", "u", "n", "i", "f", "i",
    "e", "d", ",", " ", "e", "a", "s", "y", "-", "t", "o", "-", "u", "n", "d", "e", "r",
    "s", "t", "a", "n", "d", " ", "s", "t", "u", "d", "y", " ", "g", "u", "i", "d", "e",
    ".", " ", "A", "v", "o", "i", "d", " ", "d", "u", "p", "l", "i", "c", "a", "t", "i",
    "o", "n", ",", " ", "a", "l", "i", "g", "n", " ", "t", "e", "r", "m", "i", "n", "o",
    "l", "o", "g", "y", ",", " ", "a", "n", "d", " ", "a", "d", "d", " ", "b", "r", "i",
    "e", "f", " ", "t", "r", "a", "n", "s", "i", "t", "i", "o", "n", "s", " ", "w", "h",
    "e", "n", " ", "n", "e", "e", "d", "e", "d", ".">>

\* f"{preface}\n\n# Study Guide\n\n"
StudyGuideHeading ==
    <<"\n", "\n", "#", " ", "S", "t", "u", "d", "y", " ", "G", "u", "i", "d", "e", "\n",
    "\n">>

\* "\n\n## References\n\n"
ReferencesHeading ==
    <<"\n", "\n", "#", "#", " ", "R", "e", "f", "e", "r", "e", "n", "c", "e", "s", "\n",
    "\n">>

EmDash == <<" ", "U+2014", " ">>

\* the mutant of return_exceptions that leaves it at gather's default
return_exceptions_default == FALSE

\* asyncio.gather(*tasks, return_exceptions=True)
return_exceptions == TRUE

\* the mutant of GatherResults that lists the results as they complete
GatherResultsAsCompleted(ts, settled) == [k \in 1..Len(settled) |-> ts[settled[k]].result]

\* results = await asyncio.gather(...): the result of each task, in the order
\* of the awaitables passed, whatever the order they settled in
GatherResults(ts, settled) == [i \in 1..Len(ts) |-> ts[i].result]

\* title = result.meta.title or f"Source {idx}"
SectionTitle(idx, r) ==
    IF Truthy(r.meta.title) THEN r.meta.title[1] ELSE SourcePrefix \o ToStr(idx)

\* the section appended for the idx-th result; str(r) of an McpError is its message
Section(idx, r, length) ==
    IF r.kind = "error"
    THEN <<"#", "#", " ">> \o SourcePrefix \o ToStr(idx) \o ParagraphBreak
            \o ErrorBullet \o r.message
    ELSE <<"#", "#", " ">> \o SectionTitle(idx, r) \o ParagraphBreak
            \o _summarize_markdown(r.markdown, length).md_summary

\* the mutant of Citation that cites a failed source too
CitationOfAny(idx, r) ==
    IF r.kind = "error" THEN <<<<"[">> \o ToStr(idx) \o <<"]", " ">> \o r.message>>
    ELSE <<<<"[">> \o ToStr(idx) \o <<"]", " ">> \o SectionTitle(idx, r) \o EmDash
            \o r.meta.canonical_url[1]>>

\* the lines the idx-th result adds to bibliography: none for an exception
\* (continue), none without a canonical URL
Citation(idx, r) ==
    IF r.kind = "error" \/ ~Truthy(r.meta.canonical_url) THEN <<>>
    ELSE <<<<"[">> \o ToStr(idx) \o <<"]", " ">> \o SectionTitle(idx, r) \o EmDash
            \o r.meta.canonical_url[1]>>

RECURSIVE Flatten(_)
Flatten(lists) == IF lists = <<>> THEN <<>> ELSE Head(lists) \o Flatten(Tail(lists))

\* the loop over results and the assembly of the returned document
StudyGuide(results, length) ==
    LET sections == Seqify([i \in 1..Len(results) |-> Section(i, results[i], length)])
        bibliography == Flatten(Seqify([i \in 1..Len(results) |-> Citation(i, results[i])]))
    IN  [sections |-> sections,
         bibliography |-> bibliography,
         text |-> Preface \o StudyGuideHeading \o Join(ParagraphBreak, sections)
                    \o (IF bibliography # <<>>
                        THEN ReferencesHeading \o Join(Newline, bibliography)
                        ELSE <<>>)]

----------------------------------------------------------------------------
(* The web the batch runs against, and the batches.                        *)

MaxUrls == 2

\* a page readability finds nothing in
UrlPlain ==
    <<"h", "t", "t", "p", "s", ":", "/", "/", "p", "l", "a", "i", "n", ".", "e", "x", "a",
    "m", "p", "l", "e">>

\* answers 404, with a JSON body
Url404 ==
    <<"h", "t", "t", "p", "s", ":", "/", "/", "4", "0", "4", ".", "e", "x", "a", "m", "p",
    "l", "e">>

\* cannot be connected to
UrlDown ==
    <<"h", "t", "t", "p", "s", ":", "/", "/", "d", "o", "w", "n", ".", "e", "x", "a", "m",
    "p", "l", "e">>

\* answers 200, with a JSON body
UrlJson ==
    <<"h", "t", "t", "p", "s", ":", "/", "/", "a", "p", "i", ".", "e", "x", "a", "m", "p",
    "l", "e">>

\* where UrlOk redirects to
UrlOkFinal ==
    <<"h", "t", "t", "p", "s", ":", "/", "/", "o", "k", ".", "e", "x", "a", "m", "p", "l",
    "e", "/", "h", "o", "m", "e">>

Urls == {UrlOk, UrlPlain, Url404, UrlDown, UrlJson}

\* what client.get(url) comes to
Fetch(url) ==
    CASE url = UrlOk -> Response(200, CtHtmlCharset, UrlOkFinal,
                                 Article(Some(TitleOk), Some(Html), Rep(HeadingBlock, 2)))
      [] url = UrlPlain -> Response(200, CtHtml, UrlPlain, [OkPage EXCEPT !.sj = None])
      [] url = Url404 -> Response(404, CtJson, Url404, OkPage)
      [] url = UrlDown -> TransportError(CauseConnect)
      [] url = UrlJson -> Response(200, CtJson, UrlJson, OkPage)

UrlLists == UNION {[1..n -> Urls] : n \in 0..MaxUrls}

----------------------------------------------------------------------------
(* batch_summarize under call: one task per URL, run by the event loop.    *)

Init ==
    /\ arg \in [urls : UrlLists, length : Lengths]
    /\ tasks = [i \in 1..Len(arg.urls) |-> [state |-> "created", result |-> <<>>]]
    /\ order = <<>>
    /\ ret = <<>>
    /\ pc = "gather"

\* the event loop runs the tasks gather scheduled, in the order it scheduled
\* them, each up to its await of client.get
TaskStart(i) ==
    /\ tasks[i].state = "created"
    /\ \A j \in 1..(i - 1) : tasks[j].state # "created"
    /\ tasks' = [tasks EXCEPT ![i].state = "awaiting"]
    /\ UNCHANGED <<arg, ret, pc, order>>

\* client.get of task i comes to its end, and the task runs to its return or
\* its raise; without return_exceptions the first exception is raised out of
\* gather, and out of batch_summarize
TaskSettle(i) ==
    /\ tasks[i].state = "awaiting"
    /\ LET r == _extract_url(arg.urls[i], Fetch(arg.urls[i]))
       IN  /\ tasks' = [tasks EXCEPT ![i] = [state |-> "settled", result |-> r]]
           /\ pc' = IF pc = "gather" /\ r.kind = "error" /\ ~return_exceptions
                    THEN "failed" ELSE pc
    /\ order' = Append(order, i)
    /\ UNCHANGED <<arg, ret>>

\* gather returns once every task has settled; the rest of batch_summarize has
\* no await in it
Aggregate ==
    /\ pc = "gather"
    /\ \A i \in 1..Len(tasks) : tasks[i].state = "settled"
    /\ ret' = StudyGuide(GatherResults(tasks, order), arg.length)
    /\ pc' = "done"
    /\ UNCHANGED <<arg, tasks, order>>

Next ==
    \/ \E i \in 1..Len(tasks) : TaskStart(i)
    \/ \E i \in 1..Len(tasks) : TaskSettle(i)
    \/ Aggregate

Spec == Init /\ [][Next]_vars

----------------------------------------------------------------------------
(* What the study guide is said to be.                                     *)

\* the outcome of extracting the URL at input position i, taken alone
Outcome(i) == _extract_url(arg.urls[i], Fetch(arg.urls[i]))

Failed(i) == Outcome(i).kind = "error"

\* the page title, or "Source i" if absent
TitleAt(i) ==
    LET title == Outcome(i).meta.title
    IN  IF title = None \/ title = Some(<<>>) THEN SourcePrefix \o ToStr(i) ELSE title[1]

\* "## <title>" and the summary of the page at position i, or for a failed URL
\* "## Source i" and the single bullet "- Error: <failure description>"
SectionAt(i) ==
    IF Failed(i)
    THEN <<"#", "#", " ", "S", "o", "u", "r", "c", "e", " ">> \o ToStr(i) \o <<"\n", "\n">>
            \o <<"-", " ", "E", "r", "r", "o", "r", ":", " ">> \o Outcome(i).message
    ELSE <<"#", "#", " ">> \o TitleAt(i) \o <<"\n", "\n">>
            \o _summarize_markdown(Outcome(i).markdown, arg.length).md_summary

\* "[i] "
Numbered(i) == <<"[">> \o ToStr(i) \o <<"]", " ">>

\* "[i] <title> -- <canonicalUrl>", with an em dash
BibliographyLine(i) ==
    Numbered(i) \o TitleAt(i) \o <<" ", "U+2014", " ">> \o Outcome(i).meta.canonical_url[1]

\* the positions with a bibliography line: extracted, with a canonical URL
Cited ==
    {i \in 1..Len(arg.urls) : ~Failed(i) /\ Truthy(Outcome(i).meta.canonical_url)}

EndsWith(s, p) ==
    LET str == s
        suf == p
    IN  Len(str) >= Len(suf) /\ SubSeq(str, Len(str) - Len(suf) + 1, Len(str)) = suf

\* the tasks did not settle in the order of their URLs
SettledOutOfOrder == \E k \in 1..(Len(order) - 1) : order[k] > order[k + 1]

\* C1: whatever the order the extractions complete in, the batch emits exactly
\* len(urls) sections, the k-th one that of the k-th input URL, every
\* bibliography line numbered [i] is that of the URL at input position i, and
\* the output is the one the per-URL outcomes in input order give.
C1_OutputFollowsInputOrder ==
    pc = "done" =>
        /\ Len(ret.sections) = Len(arg.urls)
        /\ \A k \in 1..Len(arg.urls) : ret.sections[k] = SectionAt(k)
        /\ \A n \in 1..Len(ret.bibliography) :
              \A i \in 1..Len(arg.urls) :
                  StartsWith(ret.bibliography[n], Numbered(i)) =>
                      i \in Cited /\ ret.bibliography[n] = BibliographyLine(i)
        /\ ret = StudyGuide([k \in 1..Len(arg.urls) |-> Outcome(k)], arg.length)

\* C1's case: two different URLs, the later one settled before the earlier one
C1_Witness ==
    /\ pc = "done"
    /\ SettledOutOfOrder
    /\ \E i, j \in 1..Len(arg.urls) : i < j /\ SectionAt(i) # SectionAt(j)
    /\ Len(ret.sections) = Len(arg.urls)

\* C2: the batch never fails as a whole; it returns only once every extraction
\* has settled, each with the outcome of its own URL; the document it returns
\* has, for each failed URL at position i, the section "## Source i" with the
\* single bullet "- Error: <failure description>", and for each other URL the
\* section it has when no URL fails.
C2_FailuresAreContained ==
    /\ pc \in {"gather", "done"}
    /\ \A i \in 1..Len(tasks) :
          /\ tasks[i].state \in {"created", "awaiting", "settled"}
          /\ tasks[i].state = "settled" => tasks[i].result = Outcome(i)
    /\ pc = "done" =>
          /\ \A i \in 1..Len(tasks) : tasks[i].state = "settled"
          /\ StartsWith(ret.text, Preface \o StudyGuideHeading)
          /\ \A i \in 1..Len(arg.urls) :
                IF Failed(i)
                THEN ret.sections[i] =
                        <<"#", "#", " ", "S", "o", "u", "r", "c", "e", " ">> \o ToStr(i)
                            \o <<"\n", "\n", "-", " ", "E", "r", "r", "o", "r", ":", " ">>
                            \o Outcome(i).message
                ELSE ret.sections[i] =
                        <<"#", "#", " ">> \o TitleAt(i) \o <<"\n", "\n">>
                            \o _summarize_markdown(Outcome(i).markdown, arg.length).md_summary

\* C2's case: a URL that fails settles first, and a sibling is extracted
C2_Witness ==
    /\ pc = "done"
    /\ Len(order) >= 2
    /\ Failed(order[1])
    /\ \E i \in 1..Len(arg.urls) : ~Failed(i)
    /\ \E i \in 1..Len(arg.urls) : Failed(i) /\ Contains(ret.sections[i], ErrorBullet)

\* C3: the bibliography has exactly one line "[i] <title> -- <canonicalUrl>"
\* for each extracted URL at position i with a canonical URL, and no line for
\* a failed URL; "## References" is in the output if and only if the
\* bibliography is not empty, so that a batch where every URL fails has no
\* bibliography line and no "## References".
C3_BibliographyListsSuccesses ==
    pc = "done" =>
        /\ Len(ret.bibliography) = Cardinality(Cited)
        /\ \A i \in Cited :
              Cardinality({n \in 1..Len(ret.bibliography) :
                              ret.bibliography[n] = BibliographyLine(i)}) = 1
        /\ \A i \in 1..Len(arg.urls) :
              Failed(i) =>
                  \A n \in 1..Len(ret.bibliography) :
                      ~StartsWith(ret.bibliography[n], Numbered(i))
        /\ Contains(ret.text, ReferencesHeading) <=> ret.bibliography # <<>>
        /\ ret.bibliography # <<>> =>
              EndsWith(ret.text, ReferencesHeading \o Join(Newline, ret.bibliography))
        /\ (\A i \in 1..Len(arg.urls) : Failed(i)) =>
              ret.bibliography = <<>> /\ ~Contains(ret.text, ReferencesHeading)

\* C3's case: an extracted URL and one that answers 404, summarized short
C3_Witness ==
    /\ pc = "done"
    /\ arg.urls = <<UrlOk, Url404>>
    /\ arg.length = "short"
    /\ Len(ret.sections) = 2
    /\ Contains(ret.sections[2], ErrorBullet)
    /\ ret.bibliography = <<BibliographyLine(1)>>
    /\ Contains(ret.text, ReferencesHeading)

====
